---- MODULE Spec2Model ----
(***************************************************************************)
(* Model of src/main.py: the mention-polling bot (control-plane handlers,  *)
(* the background polling thread, the process_mentions cycle) and the      *)
(* UsageTracker.                                                           *)
(*                                                                         *)
(* Threads of the program:                                                 *)
(*   - the asyncio event-loop thread runs every `async def` handler and    *)
(*     every BackgroundTasks coroutine; a coroutine keeps the loop until   *)
(*     it reaches an `await` that suspends or returns, so handlers and     *)
(*     coroutines are atomic with respect to each other between awaits;    *)
(*   - each start_background_mention_check() starts one threading.Thread   *)
(*     that runs run_mention_check(); it interleaves with the event-loop   *)
(*     thread and with other such threads at every step.                   *)
(***************************************************************************)
EXTENDS Integers, Sequences, FiniteSets, TLC

\* ---------------------------------------------------------------- bounds
MaxWorkers == 2      \* polling threads that can be alive at once
MaxTriggers == 1     \* BackgroundTasks coroutines queued or running at once
MaxMention == 2      \* mention ids the platform can return: 1..MaxMention
MaxReads == 2        \* cycles are started only while reads_this_month < MaxReads
MaxMonth == 1        \* the wall clock advances over months 0..MaxMonth
MaxReplies == 2      \* the platform accepts at most MaxReplies replies to one mention
MaxCallers == 2      \* threads that call the UsageTracker concurrently
MaxCalls == 3        \* UsageTracker calls made in one run of the tracker

Workers == 1..MaxWorkers
Triggers == {100 + i : i \in 1..MaxTriggers}
Executors == Workers \cup Triggers
MentionIds == 1..MaxMention
Callers == 1..MaxCallers
None == 0
NotClearing == -1

\* values a client can put in BotConfig.check_interval_seconds (any int)
IntervalValues == {-1, 60}

VARIABLES
    bot_config,             \* the module-level BotConfig object
    mention_check_task,     \* None or the Thread most recently started
    mention_check_running,  \* the shared stop flag
    processed_mentions,     \* set of mention ids
    usage,                  \* the UsageTracker object
    now,                    \* month of datetime.now()
    wpc,                    \* per thread: position in run_mention_check
    cpc,                    \* per executor: position in process_mentions
    todo,                   \* per executor: mentions.data not yet iterated
    reply_count,            \* per executor: local reply_count
    result,                 \* per executor: what process_mentions returned last
    response,               \* what POST /bot/check-mentions answered last
    clear_count,            \* local `count` of clear_processed_mentions, or NotClearing
    submitted,              \* history: successful create_tweet calls per mention id
    stop_signalled,         \* history: threads that were asleep when disable_bot ran
    dedup_since_start,      \* history: store_processed_mentions always true, no clear
    at_fetch,               \* history: what the observed cycle found when it fetched
    overlapped,             \* history: two cycles have been executing at once
    u_op,                   \* per calling thread: the UsageTracker method it is in
    u_pc,                   \* per calling thread: its position in that method
    u_tmp,                  \* per calling thread: the counter value it has loaded
    u_cms,                  \* per calling thread: local current_month_start
    read_calls,             \* history: increment_read calls made
    post_calls,             \* history: increment_post calls made
    u_stats,                \* per calling thread: the dict get_usage_stats is building
    mention_text,           \* reply pipeline: mention.text of the mention replied to
    reply_text,             \* reply pipeline: the local reply_text
    r_pc                    \* reply pipeline: position in lines 311-322

sched_vars == <<bot_config, mention_check_task, mention_check_running,
                processed_mentions, wpc, cpc, todo, reply_count, result,
                response, clear_count, submitted, stop_signalled, dedup_since_start,
                at_fetch, overlapped>>

tracker_vars == <<u_op, u_pc, u_tmp, u_cms, read_calls, post_calls, u_stats>>

reply_vars == <<mention_text, reply_text, r_pc>>

vars == <<bot_config, mention_check_task, mention_check_running,
          processed_mentions, usage, now, wpc, cpc, todo, reply_count, result,
          response, clear_count, submitted, stop_signalled, dedup_since_start,
          at_fetch, overlapped,
          u_op, u_pc, u_tmp, u_cms, read_calls, post_calls, u_stats,
          mention_text, reply_text, r_pc>>

\* ------------------------------------------------------------ UsageTracker

\* UsageTracker.__init__
UsageTracker_init(m) ==
    [reads_this_month |-> 0, posts_this_month_app |-> 0,
     posts_this_month_user |-> 0, last_reset |-> m]

\* UsageTracker._check_reset run without interruption at month m
check_reset(u, m) ==
    IF m > u.last_reset THEN UsageTracker_init(m) ELSE u

\* UsageTracker.increment_read run without interruption at month m
increment_read(u, m) ==
    LET r == check_reset(u, m)
    IN  [r EXCEPT !.reads_this_month = @ + 1]

\* UsageTracker.increment_post run without interruption at month m
increment_post(u, m) ==
    LET r == check_reset(u, m)
    IN  [r EXCEPT !.posts_this_month_app = @ + 1,
                  !.posts_this_month_user = @ + 1]

\* ------------------------------------------------------------------ config

\* an Optional[str] is a sequence of at most one string: <<>> is None
NoPrefix == <<>>

\* BotConfig(enabled=False): the fields the bot reads
BotConfig_default ==
    [enabled |-> FALSE, check_interval_seconds |-> 60, use_llm |-> FALSE,
     store_processed_mentions |-> TRUE, response_prefix |-> NoPrefix,
     tweet_max_length |-> 280]

\* every BotConfig a client posts to /bot/configure in the scheduler runs
\* (the reply-text fields keep their defaults there)
BotConfigs ==
    [enabled : BOOLEAN, check_interval_seconds : IntervalValues,
     use_llm : BOOLEAN, store_processed_mentions : BOOLEAN,
     response_prefix : {NoPrefix}, tweet_max_length : {280}]

\* get_bot_status()
get_bot_status ==
    [enabled |-> bot_config.enabled,
     check_interval_seconds |-> bot_config.check_interval_seconds]

\* ------------------------------------------------------------------- Init

\* get_usage_stats has read no counter yet
NoStats ==
    [reads_this_month |-> 0, posts_this_month_app |-> 0,
     posts_this_month_user |-> 0]

\* no cycle is being observed
NotObserved ==
    [armed |-> FALSE, taken |-> FALSE, executor |-> None, fetched |-> <<>>,
     processed |-> {}, submitted |-> [i \in MentionIds |-> 0],
     posts_app |-> 0, posts_user |-> 0]

\* the state after module initialisation, with `config` as the BotConfig
InitWith(config) ==
    /\ bot_config = config
    /\ mention_check_task = None
    /\ mention_check_running = FALSE
    /\ processed_mentions = {}
    /\ usage = UsageTracker_init(0)
    /\ now = 0
    /\ wpc = [w \in Workers |-> "none"]
    /\ cpc = [e \in Executors |-> "idle"]
    /\ todo = [e \in Executors |-> <<>>]
    /\ reply_count = [e \in Executors |-> 0]
    /\ result = [e \in Executors |-> "none"]
    /\ response = "none"
    /\ clear_count = NotClearing
    /\ submitted = [i \in MentionIds |-> 0]
    /\ stop_signalled = {}
    /\ dedup_since_start = TRUE
    /\ at_fetch = NotObserved
    /\ overlapped = FALSE
    /\ u_op = [t \in Callers |-> "none"]
    /\ u_pc = [t \in Callers |-> "idle"]
    /\ u_tmp = [t \in Callers |-> 0]
    /\ u_cms = [t \in Callers |-> 0]
    /\ read_calls = 0
    /\ post_calls = 0
    /\ u_stats = [t \in Callers |-> NoStats]
    /\ reply_text = ""
    /\ r_pc = "idle"

Init ==
    /\ InitWith(BotConfig_default)
    /\ mention_text = ""

\* ------------------------------------------------------------- event loop

\* a coroutine that is between two awaits occupies the event-loop thread
OnLoop(t) == cpc[t] \in {"test", "submit", "mark", "return"}
LoopFree == clear_count = NotClearing /\ \A t \in Triggers : ~OnLoop(t)
MayRun(e) ==
    \/ e \in Workers
    \/ clear_count = NotClearing /\ \A t \in Triggers \ {e} : ~OnLoop(t)

\* threads inside the while loop of run_mention_check
Alive(w) == wpc[w] \in {"started", "cycle", "sleep", "cooldown"}
ActiveWorkers == {w \in Workers : Alive(w)}

\* --------------------------------------------------- control-plane handlers

\* faulty variant of configure_bot: it also applies config.enabled to the
\* stop flag (used to show that C6 depends on configure_bot)
configure_bot_signals(config) ==
    /\ LoopFree
    /\ bot_config' = config
    /\ mention_check_running' = (mention_check_running /\ config.enabled)
    /\ dedup_since_start' = (dedup_since_start /\ config.store_processed_mentions)
    /\ UNCHANGED <<mention_check_task, processed_mentions, usage, now, wpc, cpc,
                   todo, reply_count, result, response, clear_count, submitted,
                   stop_signalled, tracker_vars, reply_vars, at_fetch, overlapped>>

\* POST /bot/configure
configure_bot(config) ==
    /\ LoopFree
    /\ bot_config' = config
    /\ UNCHANGED response
    /\ dedup_since_start' = (dedup_since_start /\ config.store_processed_mentions)
    /\ UNCHANGED <<mention_check_task, mention_check_running, processed_mentions,
                   usage, now, wpc, cpc, todo, reply_count, result, clear_count,
                   submitted, stop_signalled>>
    /\ UNCHANGED <<tracker_vars, reply_vars, at_fetch, overlapped>>

\* the Thread object created at line 273: the least unused thread slot
NewThread == CHOOSE w \in Workers : wpc[w] = "none" /\ \A v \in Workers : wpc[v] = "none" => w <= v

\* start_background_mention_check()
start_background_mention_check ==
    IF mention_check_running
    THEN UNCHANGED <<mention_check_task, mention_check_running, wpc>>
    ELSE /\ \E w \in Workers : wpc[w] = "none"
         /\ mention_check_running' = TRUE
         /\ mention_check_task' = NewThread
         /\ wpc' = [wpc EXCEPT ![NewThread] = "started"]

\* faulty variant of enable_bot: it starts a polling thread on every call
\* (used to show that C15 depends on the two guards of enable_bot)
enable_bot_restarts ==
    /\ LoopFree
    /\ bot_config' = [bot_config EXCEPT !.enabled = TRUE]
    /\ \E w \in Workers : wpc[w] = "none"
    /\ mention_check_running' = TRUE
    /\ mention_check_task' = NewThread
    /\ wpc' = [wpc EXCEPT ![NewThread] = "started"]
    /\ UNCHANGED <<processed_mentions, usage, now, cpc, todo, reply_count, result,
                   response, clear_count, submitted, stop_signalled,
                   dedup_since_start, tracker_vars, reply_vars, at_fetch,
                   overlapped>>

\* POST /bot/enable
enable_bot ==
    /\ LoopFree
    /\ bot_config' = [bot_config EXCEPT !.enabled = TRUE]
    /\ IF mention_check_task = None
       THEN start_background_mention_check
       ELSE UNCHANGED <<mention_check_task, mention_check_running, wpc>>
    /\ UNCHANGED response
    /\ UNCHANGED <<processed_mentions, usage, now, cpc, todo, reply_count, result,
                   clear_count, submitted, stop_signalled, dedup_since_start>>
    /\ UNCHANGED <<tracker_vars, reply_vars, at_fetch, overlapped>>

\* faulty variant of disable_bot: it also empties the processed set (used
\* to show that C19 depends on what the handlers leave alone)
disable_bot_clears ==
    /\ LoopFree
    /\ bot_config' = [bot_config EXCEPT !.enabled = FALSE]
    /\ mention_check_running' = FALSE
    /\ mention_check_task' = None
    /\ processed_mentions' = {}
    /\ stop_signalled' = stop_signalled \cup {w \in Workers : wpc[w] = "sleep"}
    /\ UNCHANGED <<usage, now, wpc, cpc, todo, reply_count, result, response,
                   clear_count, submitted, dedup_since_start, tracker_vars,
                   reply_vars, at_fetch, overlapped>>

\* POST /bot/disable
disable_bot ==
    /\ LoopFree
    /\ bot_config' = [bot_config EXCEPT !.enabled = FALSE]
    /\ mention_check_running' = FALSE
    /\ mention_check_task' = None
    /\ UNCHANGED response
    /\ stop_signalled' = stop_signalled \cup {w \in Workers : wpc[w] = "sleep"}
    /\ UNCHANGED <<processed_mentions, usage, now, wpc, cpc, todo, reply_count,
                   result, clear_count, submitted, dedup_since_start>>
    /\ UNCHANGED <<tracker_vars, reply_vars, at_fetch, overlapped>>

\* faulty variant of check_mentions: it dispatches the cycle without looking
\* at enabled (used to show that C7 depends on check_mentions)
check_mentions_unguarded ==
    /\ LoopFree
    /\ \E t \in Triggers : cpc[t] = "idle"
    /\ LET t == CHOOSE x \in Triggers : cpc[x] = "idle"
       IN  cpc' = [cpc EXCEPT ![t] = "start"]
    /\ response' = "Checking for mentions in the background"
    /\ UNCHANGED <<bot_config, mention_check_task, mention_check_running,
                   processed_mentions, usage, now, wpc, todo, reply_count, result,
                   clear_count, submitted, stop_signalled, dedup_since_start,
                   tracker_vars, reply_vars, at_fetch, overlapped>>

\* POST /bot/check-mentions
check_mentions ==
    /\ LoopFree
    /\ IF ~bot_config.enabled
       THEN /\ response' = "Bot is currently disabled. Enable it first."
            /\ UNCHANGED cpc
       ELSE /\ \E t \in Triggers : cpc[t] = "idle"
            /\ LET t == CHOOSE x \in Triggers : cpc[x] = "idle"
               IN  cpc' = [cpc EXCEPT ![t] = "start"]
            /\ response' = "Checking for mentions in the background"
    /\ UNCHANGED <<bot_config, mention_check_task, mention_check_running,
                   processed_mentions, usage, now, wpc, todo, reply_count, result,
                   clear_count, submitted, stop_signalled, dedup_since_start>>
    /\ UNCHANGED <<tracker_vars, reply_vars, at_fetch, overlapped>>

\* POST /bot/clear-cache, line 414: count = len(processed_mentions)
clear_count_step ==
    /\ LoopFree
    /\ clear_count' = Cardinality(processed_mentions)
    /\ UNCHANGED <<bot_config, mention_check_task, mention_check_running,
                   processed_mentions, usage, now, wpc, cpc, todo, reply_count,
                   result, response, submitted, stop_signalled, dedup_since_start>>
    /\ UNCHANGED <<tracker_vars, reply_vars, at_fetch, overlapped>>

\* POST /bot/clear-cache, lines 415-416: processed_mentions.clear(); return
clear_processed_mentions ==
    /\ clear_count # NotClearing
    /\ processed_mentions' = {}
    /\ clear_count' = NotClearing
    /\ UNCHANGED response
    /\ dedup_since_start' = FALSE
    /\ UNCHANGED <<bot_config, mention_check_task, mention_check_running, usage,
                   now, wpc, cpc, todo, reply_count, result, submitted,
                   stop_signalled>>
    /\ UNCHANGED <<tracker_vars, reply_vars, at_fetch, overlapped>>

\* POST /bot/configure-llm
configure_llm(use_llm) ==
    /\ LoopFree
    /\ bot_config' = [bot_config EXCEPT !.use_llm = use_llm]
    /\ UNCHANGED response
    /\ UNCHANGED <<mention_check_task, mention_check_running, processed_mentions,
                   usage, now, wpc, cpc, todo, reply_count, result, clear_count,
                   submitted, stop_signalled, dedup_since_start>>
    /\ UNCHANGED <<tracker_vars, reply_vars, at_fetch, overlapped>>

\* --------------------------------------------- UsageTracker, step by step
\* The tracker is called from the event-loop thread (whoami, create_tweet,
\* get_usage, background cycles) and from the polling threads, with no lock:
\* every read and every write of a field is a step of its own.

\* the wall clock passes the first day of the next month
Tick ==
    /\ now < MaxMonth
    /\ now' = now + 1
    /\ UNCHANGED <<usage, sched_vars, tracker_vars, reply_vars>>

\* a thread calls increment_read (lines 51-52), increment_post (57-58) or
\* get_usage_stats (78-79)
Call(t, op) ==
    /\ u_op[t] = "none"
    /\ op = "get_usage_stats" \/ read_calls + post_calls < MaxCalls
    /\ u_op' = [u_op EXCEPT ![t] = op]
    /\ u_pc' = [u_pc EXCEPT ![t] = "check"]
    /\ read_calls' = read_calls + (IF op = "increment_read" THEN 1 ELSE 0)
    /\ post_calls' = post_calls + (IF op = "increment_post" THEN 1 ELSE 0)
    /\ UNCHANGED <<usage, now, sched_vars, reply_vars, u_tmp, u_cms, u_stats>>

\* where the method goes on when _check_reset has returned
after_check_reset(t) ==
    IF u_op[t] = "get_usage_stats" THEN "stats_reads" ELSE "load"

\* _check_reset, lines 70-71: read the clock, compare with last_reset
CheckReset(t) ==
    /\ u_pc[t] = "check"
    /\ IF now > usage.last_reset
       THEN /\ u_pc' = [u_pc EXCEPT ![t] = "reset_reads"]
            /\ u_cms' = [u_cms EXCEPT ![t] = now]
       ELSE /\ u_pc' = [u_pc EXCEPT ![t] = after_check_reset(t)]
            /\ UNCHANGED u_cms
    /\ UNCHANGED <<usage, now, sched_vars, reply_vars, u_op, u_tmp, read_calls, post_calls,
                   u_stats>>

\* _check_reset, line 73
ResetReads(t) ==
    /\ u_pc[t] = "reset_reads"
    /\ usage' = [usage EXCEPT !.reads_this_month = 0]
    /\ u_pc' = [u_pc EXCEPT ![t] = "reset_app"]
    /\ UNCHANGED <<now, sched_vars, reply_vars, u_op, u_tmp, u_cms, read_calls, post_calls,
                   u_stats>>

\* _check_reset, line 74
ResetApp(t) ==
    /\ u_pc[t] = "reset_app"
    /\ usage' = [usage EXCEPT !.posts_this_month_app = 0]
    /\ u_pc' = [u_pc EXCEPT ![t] = "reset_user"]
    /\ UNCHANGED <<now, sched_vars, reply_vars, u_op, u_tmp, u_cms, read_calls, post_calls,
                   u_stats>>

\* _check_reset, line 75
ResetUser(t) ==
    /\ u_pc[t] = "reset_user"
    /\ usage' = [usage EXCEPT !.posts_this_month_user = 0]
    /\ u_pc' = [u_pc EXCEPT ![t] = "reset_last"]
    /\ UNCHANGED <<now, sched_vars, reply_vars, u_op, u_tmp, u_cms, read_calls, post_calls,
                   u_stats>>

\* _check_reset, line 76, and return to the caller
ResetLast(t) ==
    /\ u_pc[t] = "reset_last"
    /\ usage' = [usage EXCEPT !.last_reset = u_cms[t]]
    /\ u_pc' = [u_pc EXCEPT ![t] = after_check_reset(t)]
    /\ u_cms' = [u_cms EXCEPT ![t] = 0]
    /\ UNCHANGED <<now, sched_vars, reply_vars, u_op, u_tmp, read_calls, post_calls,
                   u_stats>>

\* the method returns
Done(t) ==
    /\ u_op' = [u_op EXCEPT ![t] = "none"]
    /\ u_pc' = [u_pc EXCEPT ![t] = "idle"]
    /\ u_tmp' = [u_tmp EXCEPT ![t] = 0]

\* lines 53 and 59, `+= 1`: the counter is read ...
Load(t) ==
    /\ u_pc[t] = "load"
    /\ u_tmp' = [u_tmp EXCEPT ![t] = IF u_op[t] = "increment_read"
                                     THEN usage.reads_this_month
                                     ELSE usage.posts_this_month_app]
    /\ u_pc' = [u_pc EXCEPT ![t] = "store"]
    /\ UNCHANGED <<usage, now, sched_vars, reply_vars, u_op, u_cms, read_calls, post_calls,
                   u_stats>>

\* ... and the sum is written back
Store(t) ==
    /\ u_pc[t] = "store"
    /\ IF u_op[t] = "increment_read"
       THEN /\ usage' = [usage EXCEPT !.reads_this_month = u_tmp[t] + 1]
            /\ Done(t)
       ELSE /\ usage' = [usage EXCEPT !.posts_this_month_app = u_tmp[t] + 1]
            /\ u_pc' = [u_pc EXCEPT ![t] = "load_user"]
            /\ UNCHANGED <<u_op, u_tmp>>
    /\ UNCHANGED <<now, sched_vars, reply_vars, u_cms, read_calls, post_calls,
                   u_stats>>

\* line 60, `+= 1`: the counter is read ...
LoadUser(t) ==
    /\ u_pc[t] = "load_user"
    /\ u_tmp' = [u_tmp EXCEPT ![t] = usage.posts_this_month_user]
    /\ u_pc' = [u_pc EXCEPT ![t] = "store_user"]
    /\ UNCHANGED <<usage, now, sched_vars, reply_vars, u_op, u_cms, read_calls, post_calls,
                   u_stats>>

\* ... and the sum is written back
StoreUser(t) ==
    /\ u_pc[t] = "store_user"
    /\ usage' = [usage EXCEPT !.posts_this_month_user = u_tmp[t] + 1]
    /\ Done(t)
    /\ UNCHANGED <<now, sched_vars, reply_vars, u_cms, read_calls, post_calls,
                   u_stats>>

\* get_usage_stats, line 81: the dict gets reads_this_month
StatsReads(t) ==
    /\ u_pc[t] = "stats_reads"
    /\ u_stats' = [u_stats EXCEPT ![t].reads_this_month = usage.reads_this_month]
    /\ u_pc' = [u_pc EXCEPT ![t] = "stats_app"]
    /\ UNCHANGED <<usage, now, sched_vars, reply_vars, u_op, u_tmp, u_cms,
                   read_calls, post_calls>>

\* get_usage_stats, line 82: the dict gets posts_this_month_app
StatsApp(t) ==
    /\ u_pc[t] = "stats_app"
    /\ u_stats' = [u_stats EXCEPT
                      ![t].posts_this_month_app = usage.posts_this_month_app]
    /\ u_pc' = [u_pc EXCEPT ![t] = "stats_user"]
    /\ UNCHANGED <<usage, now, sched_vars, reply_vars, u_op, u_tmp, u_cms,
                   read_calls, post_calls>>

\* get_usage_stats, line 83: the dict gets posts_this_month_user; the
\* entries of lines 84-87 do not touch these three
StatsUser(t) ==
    /\ u_pc[t] = "stats_user"
    /\ u_stats' = [u_stats EXCEPT
                      ![t].posts_this_month_user = usage.posts_this_month_user]
    /\ u_pc' = [u_pc EXCEPT ![t] = "stats_return"]
    /\ UNCHANGED <<usage, now, sched_vars, reply_vars, u_op, u_tmp, u_cms,
                   read_calls, post_calls>>

\* get_usage_stats, line 88: the dict is returned to the caller
StatsReturn(t) ==
    /\ u_pc[t] = "stats_return"
    /\ Done(t)
    /\ u_stats' = [u_stats EXCEPT ![t] = NoStats]
    /\ UNCHANGED <<usage, now, sched_vars, reply_vars, u_cms, read_calls,
                   post_calls>>

\* the methods of the UsageTracker that other code calls
TrackerMethods == {"increment_read", "increment_post", "get_usage_stats"}

TrackerStep ==
    \/ \E t \in Callers, op \in TrackerMethods : Call(t, op)
    \/ \E t \in Callers : CheckReset(t)
    \/ \E t \in Callers : ResetReads(t)
    \/ \E t \in Callers : ResetApp(t)
    \/ \E t \in Callers : ResetUser(t)
    \/ \E t \in Callers : ResetLast(t)
    \/ \E t \in Callers : Load(t)
    \/ \E t \in Callers : Store(t)
    \/ \E t \in Callers : LoadUser(t)
    \/ \E t \in Callers : StoreUser(t)
    \/ \E t \in Callers : StatsReads(t)
    \/ \E t \in Callers : StatsApp(t)
    \/ \E t \in Callers : StatsUser(t)
    \/ \E t \in Callers : StatsReturn(t)
    \/ Tick

\* the UsageTracker under concurrent callers, across month boundaries
SpecUsage == Init /\ [][TrackerStep]_vars

\* ------------------------------------------------------ process_mentions

RECURSIVE Descending(_)
\* the ids of S, most recent (largest) first
Descending(S) ==
    IF S = {} THEN <<>>
    ELSE LET m == CHOOSE x \in S : \A y \in S : y <= x
         IN  <<m>> \o Descending(S \ {m})

\* what client.get_users_mentions can return in mentions.data
FetchResults == {Descending(S) : S \in SUBSET MentionIds}

\* process_mentions reaches a return statement with value `res`
\* (lines 298, 346, 350)
Finish(e, res) ==
    /\ cpc' = [cpc EXCEPT ![e] = "return"]
    /\ todo' = [todo EXCEPT ![e] = <<>>]
    /\ result' = [result EXCEPT ![e] = res]

\* the for loop moves on to the rest of mentions.data, or the function returns
NextMention(e, rest) ==
    IF rest = <<>>
    THEN Finish(e, "Processed mentions")
    ELSE /\ cpc' = [cpc EXCEPT ![e] = "test"]
         /\ todo' = [todo EXCEPT ![e] = rest]
         /\ UNCHANGED result

\* executors inside the body of process_mentions
InCycle(e) == cpc[e] \in {"test", "await", "submit", "mark", "return"}

\* lines 281-299: record the read, fetch; `fetched` is mentions.data,
\* `ok` is false when get_me / get_users_mentions raises
Fetch(e, ok, fetched) ==
    /\ cpc[e] = "start"
    /\ MayRun(e)
    /\ usage.reads_this_month < MaxReads
    /\ usage' = increment_read(usage, now)
    /\ reply_count' = [reply_count EXCEPT ![e] = 0]
    /\ IF ~ok THEN Finish(e, "error")
       ELSE IF fetched = <<>> THEN Finish(e, "No new mentions found")
       ELSE /\ cpc' = [cpc EXCEPT ![e] = "test"]
            /\ todo' = [todo EXCEPT ![e] = fetched]
            /\ UNCHANGED result
    /\ at_fetch' = IF at_fetch.armed /\ ok
                   THEN [armed |-> FALSE, taken |-> TRUE, executor |-> e,
                         fetched |-> fetched, processed |-> processed_mentions,
                         submitted |-> submitted,
                         posts_app |-> usage.posts_this_month_app,
                         posts_user |-> usage.posts_this_month_user]
                   ELSE at_fetch
    /\ overlapped' = (overlapped \/ \E o \in Executors \ {e} : InCycle(o))
    /\ UNCHANGED <<wpc, bot_config, mention_check_task, mention_check_running,
                   processed_mentions, now, response, clear_count, submitted,
                   stop_signalled, dedup_since_start>>
    /\ UNCHANGED <<tracker_vars, reply_vars>>

\* faulty variant of is_skipped: no mention is ever skipped (used to show
\* that C12 depends on the membership test)
is_skipped_never(id) == FALSE

\* line 305: is the mention skipped?
is_skipped(id) ==
    bot_config.store_processed_mentions /\ id \in processed_mentions

\* lines 301-322: the membership test, then the reply text is generated;
\* generate_llm_reply suspends in `await asyncio.sleep(1)`
Test(e) ==
    /\ cpc[e] = "test"
    /\ MayRun(e)
    /\ IF is_skipped(Head(todo[e]))
       THEN NextMention(e, Tail(todo[e]))
       ELSE /\ cpc' = [cpc EXCEPT ![e] = IF bot_config.use_llm THEN "await"
                                                               ELSE "submit"]
            /\ UNCHANGED <<todo, result>>
    /\ UNCHANGED <<wpc, bot_config, mention_check_task, mention_check_running,
                   processed_mentions, usage, now, reply_count, response,
                   clear_count, submitted, stop_signalled, dedup_since_start>>
    /\ UNCHANGED <<tracker_vars, reply_vars, at_fetch, overlapped>>

\* generate_llm_reply resumes after asyncio.sleep(1) and returns
Resume(e) ==
    /\ cpc[e] = "await"
    /\ MayRun(e)
    /\ cpc' = [cpc EXCEPT ![e] = "submit"]
    /\ UNCHANGED <<bot_config, mention_check_task, mention_check_running,
                   processed_mentions, usage, now, wpc, todo, reply_count, result,
                   response, clear_count, submitted, stop_signalled,
                   dedup_since_start>>
    /\ UNCHANGED <<tracker_vars, reply_vars, at_fetch, overlapped>>

\* faulty variant of Submit: a failed create_tweet still marks the mention
\* as processed (used to show that C16 depends on lines 331-341)
Submit_marks_failure(e, ok) ==
    /\ cpc[e] = "submit"
    /\ MayRun(e)
    /\ IF ok
       THEN /\ submitted[Head(todo[e])] < MaxReplies
            /\ submitted' = [submitted EXCEPT ![Head(todo[e])] = @ + 1]
            /\ cpc' = [cpc EXCEPT ![e] = "mark"]
            /\ UNCHANGED <<todo, result, processed_mentions>>
       ELSE /\ NextMention(e, Tail(todo[e]))
            /\ processed_mentions' = processed_mentions \cup {Head(todo[e])}
            /\ UNCHANGED submitted
    /\ UNCHANGED <<wpc, bot_config, mention_check_task, mention_check_running,
                   usage, now, reply_count, response, clear_count,
                   stop_signalled, dedup_since_start, tracker_vars, reply_vars,
                   at_fetch, overlapped>>

\* lines 325-329, 340-341: client.create_tweet succeeds (ok) or raises
Submit(e, ok) ==
    /\ cpc[e] = "submit"
    /\ MayRun(e)
    /\ IF ok
       THEN /\ submitted[Head(todo[e])] < MaxReplies
            /\ submitted' = [submitted EXCEPT ![Head(todo[e])] = @ + 1]
            /\ cpc' = [cpc EXCEPT ![e] = "mark"]
            /\ UNCHANGED <<todo, result>>
       ELSE /\ NextMention(e, Tail(todo[e]))
            /\ UNCHANGED submitted
    /\ UNCHANGED <<wpc, bot_config, mention_check_task, mention_check_running,
                   processed_mentions, usage, now, reply_count, response,
                   clear_count, stop_signalled, dedup_since_start>>
    /\ UNCHANGED <<tracker_vars, reply_vars, at_fetch, overlapped>>

\* faulty variant of mark_processed: the id is stored whatever
\* store_processed_mentions says (used to show that the amended C17 depends
\* on the test of line 332)
mark_processed_always(id) == processed_mentions \cup {id}

\* faulty variant of mark_processed: the id is never stored (used to show
\* that C20 depends on line 333)
mark_processed_never(id) == processed_mentions

\* lines 331-333: mark as processed
mark_processed(id) ==
    IF bot_config.store_processed_mentions
    THEN processed_mentions \cup {id}
    ELSE processed_mentions

\* lines 331-339: mark as processed, count the post and the reply
Mark(e) ==
    /\ cpc[e] = "mark"
    /\ MayRun(e)
    /\ processed_mentions' = mark_processed(Head(todo[e]))
    /\ usage' = increment_post(usage, now)
    /\ reply_count' = [reply_count EXCEPT ![e] = @ + 1]
    /\ NextMention(e, Tail(todo[e]))
    /\ UNCHANGED <<wpc, bot_config, mention_check_task, mention_check_running, now,
                   response, clear_count, submitted, stop_signalled,
                   dedup_since_start>>
    /\ UNCHANGED <<tracker_vars, reply_vars, at_fetch, overlapped>>

\* process_mentions returns to its caller and its locals are gone.  A polling
\* thread goes on to line 264, time.sleep(check_interval_seconds), which
\* raises ValueError for a negative interval and lands in the except branch
\* (line 267, the 30 s pause); a background task just ends.
Return(e) ==
    /\ cpc[e] = "return"
    /\ MayRun(e)
    /\ cpc' = [cpc EXCEPT ![e] = "idle"]
    /\ reply_count' = [reply_count EXCEPT ![e] = 0]
    /\ result' = [result EXCEPT ![e] = "none"]
    /\ wpc' = IF e \in Workers
              THEN [wpc EXCEPT ![e] = IF bot_config.check_interval_seconds < 0
                                      THEN "cooldown" ELSE "sleep"]
              ELSE wpc
    /\ UNCHANGED <<bot_config, mention_check_task, mention_check_running,
                   processed_mentions, usage, now, todo, response, clear_count,
                   submitted, stop_signalled, dedup_since_start>>
    /\ UNCHANGED <<tracker_vars, reply_vars, at_fetch, overlapped>>

\* ---------------------------------------------------- one cycle, alone

\* The polling thread is about to run a cycle while nothing else runs: the
\* state after enable(), configure-llm and one earlier cycle that fetched
\* and answered the mentions of P.
InitSolo ==
    \E P \in SUBSET MentionIds, llm \in BOOLEAN, interval \in IntervalValues :
        /\ bot_config = [BotConfig_default EXCEPT
                             !.enabled = TRUE, !.use_llm = llm,
                             !.check_interval_seconds = interval]
        /\ mention_check_task = 1
        /\ mention_check_running = TRUE
        /\ processed_mentions = P
        /\ usage = [reads_this_month |-> 1,
                    posts_this_month_app |-> Cardinality(P),
                    posts_this_month_user |-> Cardinality(P), last_reset |-> 0]
        /\ now = 0
        /\ wpc = [w \in Workers |-> IF w = 1 THEN "cycle" ELSE "none"]
        /\ cpc = [e \in Executors |-> IF e = 1 THEN "start" ELSE "idle"]
        /\ todo = [e \in Executors |-> <<>>]
        /\ reply_count = [e \in Executors |-> 0]
        /\ result = [e \in Executors |-> "none"]
        /\ response = "none"
        /\ clear_count = NotClearing
        /\ submitted = [i \in MentionIds |-> IF i \in P THEN 1 ELSE 0]
        /\ stop_signalled = {}
        /\ dedup_since_start = TRUE
        /\ at_fetch = [NotObserved EXCEPT !.armed = TRUE]
        /\ overlapped = FALSE
        /\ u_op = [t \in Callers |-> "none"]
        /\ u_pc = [t \in Callers |-> "idle"]
        /\ u_tmp = [t \in Callers |-> 0]
        /\ u_cms = [t \in Callers |-> 0]
        /\ read_calls = 0
        /\ post_calls = 0
        /\ u_stats = [t \in Callers |-> NoStats]
        /\ mention_text = ""
        /\ reply_text = ""
        /\ r_pc = "idle"

\* the steps of a cycle whose fetch and whose submissions all succeed
SoloStep ==
    \/ \E e \in Executors, fetched \in FetchResults : Fetch(e, TRUE, fetched)
    \/ \E e \in Executors : Test(e)
    \/ \E e \in Executors : Resume(e)
    \/ \E e \in Executors : Submit(e, TRUE)
    \/ \E e \in Executors : Mark(e)
    \/ \E e \in Executors : Return(e)

SpecSolo == InitSolo /\ [][SoloStep]_vars

\* ------------------------------------------- reply text, lines 311-322

\* generate_simple_reply(mention_text)
generate_simple_reply(text) ==
    "Thanks for mentioning me! I'm a Twitter bot running on FastAPI. "
        \o "Your message was: '" \o text \o "'"

\* generate_llm_reply(mention_text): random.choice(sample_responses), or the
\* apology of the except branch (line 407)
generate_llm_reply(text) ==
    { "Thanks for reaching out! I noticed you mentioned '" \o text
          \o "'. How can I help you today?",
      "I appreciate your mention! I'm a Twitter bot that's here to assist. "
          \o "Regarding '" \o text \o "', what would you like to know?",
      "Hello there! Thanks for the mention. I'm processing your request "
          \o "about '" \o text \o "' and will do my best to help.",
      "Thank you for your mention! I'm currently experiencing technical "
          \o "difficulties but will get back to you soon." }

\* Python's s[:n]: the first n characters, or all but the last -n of them
\* when n is negative
slice_to(s, n) ==
    LET k == IF n >= 0 THEN (IF n < Len(s) THEN n ELSE Len(s))
                       ELSE (IF Len(s) + n > 0 THEN Len(s) + n ELSE 0)
    IN  SubSeq(s, 1, k)

\* line 317: `if bot_config.response_prefix` (None and "" are falsy)
has_prefix(config) ==
    config.response_prefix # NoPrefix /\ config.response_prefix[1] # ""

\* mention.text of the mentions replied to
MentionTexts == {"", "hi", "@bot what will the weather be like tomorrow?"}

\* values a client can put in BotConfig.response_prefix (Optional[str])
Prefixes == {NoPrefix, <<"">>, <<"Bot:">>, <<"[automated reply from the bot]">>}

\* values a client can put in BotConfig.tweet_max_length (any int; the
\* replies are limited to lengths of at least 1)
TweetMaxLengths == {1, 2, 3, 4, 20, 280}

\* the BotConfigs posted to /bot/configure in the reply-text runs
ReplyConfigs ==
    [enabled : {TRUE}, check_interval_seconds : {60}, use_llm : BOOLEAN,
     store_processed_mentions : {TRUE}, response_prefix : Prefixes,
     tweet_max_length : TweetMaxLengths]

\* the state after one configure_bot(config), with a mention to reply to
InitReply ==
    /\ \E config \in ReplyConfigs : InitWith(config)
    /\ mention_text \in MentionTexts

\* lines 311-315: generate a reply
GenerateReply ==
    /\ r_pc = "idle"
    /\ IF bot_config.use_llm
       THEN reply_text' \in generate_llm_reply(mention_text)
       ELSE reply_text' = generate_simple_reply(mention_text)
    /\ r_pc' = "prefix"
    /\ UNCHANGED <<mention_text, usage, now, sched_vars, tracker_vars>>

\* lines 317-318: prepend the prefix and a space
ApplyPrefix ==
    /\ r_pc = "prefix"
    /\ reply_text' = IF has_prefix(bot_config)
                     THEN bot_config.response_prefix[1] \o " " \o reply_text
                     ELSE reply_text
    /\ r_pc' = "truncate"
    /\ UNCHANGED <<mention_text, usage, now, sched_vars, tracker_vars>>

\* lines 320-322: ensure the tweet doesn't exceed max length
Truncate ==
    /\ r_pc = "truncate"
    /\ reply_text' = IF Len(reply_text) > bot_config.tweet_max_length
                     THEN slice_to(reply_text, bot_config.tweet_max_length - 3)
                              \o "..."
                     ELSE reply_text
    /\ r_pc' = "done"
    /\ UNCHANGED <<mention_text, usage, now, sched_vars, tracker_vars>>

ReplyStep == GenerateReply \/ ApplyPrefix \/ Truncate

\* the reply text of one mention, for every configured prefix and limit
SpecReply == InitReply /\ [][ReplyStep]_vars

\* ------------------------------------------------------ run_mention_check

\* line 253: the while condition
loop_condition == mention_check_running /\ bot_config.enabled

\* line 253: the thread has started, or time.sleep has returned (lines 264,
\* 267), and the while condition is evaluated: enter the next cycle or leave
\* the loop
WorkerCheck(w) ==
    /\ wpc[w] \in {"started", "sleep", "cooldown"}
    /\ IF loop_condition
       THEN /\ wpc' = [wpc EXCEPT ![w] = "cycle"]
            /\ cpc' = [cpc EXCEPT ![w] = "start"]
       ELSE /\ wpc' = [wpc EXCEPT ![w] = "exit"]
            /\ UNCHANGED cpc
    /\ stop_signalled' = stop_signalled \ {w}
    /\ UNCHANGED <<bot_config, mention_check_task, mention_check_running,
                   processed_mentions, usage, now, todo, reply_count, result,
                   response, clear_count, submitted, dedup_since_start>>
    /\ UNCHANGED <<tracker_vars, reply_vars, at_fetch, overlapped>>

\* lines 269-270: the thread clears the flag and ends
WorkerExit(w) ==
    /\ wpc[w] = "exit"
    /\ mention_check_running' = FALSE
    /\ wpc' = [wpc EXCEPT ![w] = "none"]
    /\ UNCHANGED <<bot_config, mention_check_task, processed_mentions, usage, now,
                   cpc, todo, reply_count, result, response, clear_count,
                   submitted, stop_signalled, dedup_since_start>>
    /\ UNCHANGED <<tracker_vars, reply_vars, at_fetch, overlapped>>

\* ------------------------------------------------------------------- Next

\* steps of the polling threads and of the background-task coroutines
ThreadStep ==
    \/ \E e \in Executors, ok \in BOOLEAN, fetched \in FetchResults : Fetch(e, ok, fetched)
    \/ \E e \in Executors : Test(e)
    \/ \E e \in Executors : Resume(e)
    \/ \E e \in Executors, ok \in BOOLEAN : Submit(e, ok)
    \/ \E e \in Executors : Mark(e)
    \/ \E e \in Executors : Return(e)
    \/ \E w \in Workers : WorkerCheck(w)
    \/ \E w \in Workers : WorkerExit(w)

\* requests to the scheduler endpoints
SchedulerRequest ==
    \/ enable_bot
    \/ disable_bot
    \/ \E config \in BotConfigs : configure_bot(config)

\* requests to the other bot endpoints
OtherRequest ==
    \/ check_mentions
    \/ clear_count_step
    \/ clear_processed_mentions
    \/ \E use_llm \in BOOLEAN : configure_llm(use_llm)

Next == SchedulerRequest \/ OtherRequest \/ ThreadStep

\* the whole bot within one calendar month (the clock moves in SpecUsage)
Spec == Init /\ [][Next]_vars

\* clients call only configure, enable and disable
SpecSched == Init /\ [][SchedulerRequest \/ ThreadStep]_vars

\* clients call only enable, disable, check-mentions and configure-llm
TriggerRequest ==
    \/ enable_bot
    \/ disable_bot
    \/ check_mentions
    \/ \E use_llm \in BOOLEAN : configure_llm(use_llm)

SpecTrigger == Init /\ [][TriggerRequest \/ ThreadStep]_vars

\* clients call only enable, disable, clear-cache and configure-llm
CacheRequest ==
    \/ enable_bot
    \/ disable_bot
    \/ clear_count_step
    \/ clear_processed_mentions
    \/ \E use_llm \in BOOLEAN : configure_llm(use_llm)

SpecCache == Init /\ [][CacheRequest \/ ThreadStep]_vars

\* clients call every bot endpoint but check-mentions
StoreRequest ==
    \/ enable_bot
    \/ disable_bot
    \/ \E config \in BotConfigs : configure_bot(config)
    \/ clear_count_step
    \/ clear_processed_mentions
    \/ \E use_llm \in BOOLEAN : configure_llm(use_llm)

SpecStore == Init /\ [][StoreRequest \/ ThreadStep]_vars

\* ------------------------------------------------------------------ claims

\* C1: in every reachable state at most one polling worker is active.
AtMostOneActiveWorker == Cardinality(ActiveWorkers) <= 1

\* C2: while store_processed_mentions has stayed true and the cache was not
\* cleared, no mention id gets more than one successful reply submission,
\* also when two cycles that fetched it run concurrently.
OneSubmissionPerMention ==
    dedup_since_start => \A id \in MentionIds : submitted[id] <= 1

\* C3: at most one process_mentions cycle is executing at any time.
CyclesSerialized == Cardinality({e \in Executors : InCycle(e)}) <= 1

\* C4: enable() called while no worker is active sets enabled and leaves
\* exactly one active worker.
EnableStartsOneWorker ==
    [][(enable_bot /\ ActiveWorkers = {})
         => (bot_config'.enabled /\ Cardinality(ActiveWorkers') = 1)]_vars

\* C5: a worker that was in its inter-cycle sleep when disable() ran leaves
\* the loop at its next loop check, and the status reports enabled = false
\* once disable() has returned.
DisabledSleeperStops ==
    [][/\ \A w \in Workers :
            (w \in stop_signalled /\ WorkerCheck(w)) => wpc'[w] = "exit"
       /\ disable_bot => ~(get_bot_status.enabled)']_vars

\* C6 as stated: only disable() makes a worker stop, so a worker leaves its
\* loop only after the stop flag was cleared, never because of configure().
OnlyDisableStopsWorker ==
    [][\A w \in Workers :
          (WorkerCheck(w) /\ wpc'[w] = "exit") => ~mention_check_running]_vars

\* C6 amended: configure() installs the posted BotConfig and leaves the
\* thread handle, the stop flag and every thread where they are; a worker
\* leaves its loop exactly when the stop flag or enabled is false, so a
\* configure() with enabled = true stops no worker and one with
\* enabled = false stops the worker at its next loop check.
ConfigureLeavesScheduler ==
    [][/\ configure_bot(bot_config')
            => UNCHANGED <<mention_check_task, mention_check_running, wpc, cpc>>
       /\ \A w \in Workers :
            WorkerCheck(w)
              => (wpc'[w] = "exit"
                    <=> ~(mention_check_running /\ bot_config.enabled))]_vars

\* C6 witness: a running worker stopped by configure(enabled = false) alone
ConfigureStoppedWorker ==
    \E w \in Workers :
        wpc[w] = "exit" /\ mention_check_running /\ mention_check_task = w
            /\ ~bot_config.enabled

\* C7: check-mentions called while enabled is false answers that the bot is
\* disabled and changes nothing else; a background cycle is dispatched only
\* in a state where enabled is true.
DisabledTriggerDoesNothing ==
    [][/\ (check_mentions /\ ~bot_config.enabled)
            => /\ response' = "Bot is currently disabled. Enable it first."
               /\ UNCHANGED <<bot_config, mention_check_task,
                              mention_check_running, processed_mentions, usage,
                              now, wpc, cpc, todo, reply_count, result,
                              clear_count, submitted>>
       /\ \A t \in Triggers :
            (cpc[t] = "idle" /\ cpc'[t] # "idle") => bot_config.enabled]_vars

\* C7 witness: the bot was refused while disabled after it had already
\* replied and counted reads
DisabledTriggerRefused ==
    /\ response = "Bot is currently disabled. Enable it first."
    /\ ~bot_config.enabled
    /\ processed_mentions # {}
    /\ usage.reads_this_month > 0
    /\ \A t \in Triggers : cpc[t] = "idle"

\* C8: a cycle of the polling thread whose fetch failed is followed by the
\* 30 s cooldown pause, not by the normal interval sleep.
FetchFailureTakesCooldown ==
    [][\A w \in Workers :
          (Return(w) /\ result[w] = "error") => wpc'[w] = "cooldown"]_vars

\* C9: within one calendar month, once every call has returned, each counter
\* equals the number of calls made.
CountersEqualCalls ==
    ((\A t \in Callers : u_op[t] = "none") /\ now = 0)
        => /\ usage.reads_this_month = read_calls
           /\ usage.posts_this_month_app = post_calls
           /\ usage.posts_this_month_user = post_calls

\* C10: the reset for a month boundary is carried out once: a thread writes
\* the reset only while last_reset has not yet reached the month it computed.
ResetOncePerBoundary ==
    [][\A t \in Callers :
          (ResetReads(t) \/ ResetApp(t) \/ ResetUser(t) \/ ResetLast(t))
              => usage.last_reset < u_cms[t]]_vars

\* C11: for every generated reply, prefix and tweet_max_length >= 1, the
\* text handed to create_tweet is no longer than tweet_max_length, and when
\* it was truncated it ends with "..." and its length is tweet_max_length.
ReplyFitsLimit ==
    [][Truncate
         => /\ Len(reply_text') <= bot_config.tweet_max_length
            /\ reply_text' # reply_text
                 => /\ Len(reply_text') = bot_config.tweet_max_length
                    /\ SubSeq(reply_text', Len(reply_text') - 2,
                              Len(reply_text')) = "..."]_vars

\* the ids that the observed cycle fetched and that were not in the
\* processed set when it fetched them
NewAtFetch ==
    {at_fetch.fetched[i] : i \in 1..Len(at_fetch.fetched)} \ at_fetch.processed

\* C12: a cycle that runs alone with store_processed_mentions true and no
\* failing submission, and that fetched k mentions not yet in the processed
\* set, has made exactly k submissions when it returns (one for each of
\* those k ids), reports k, has added exactly those k ids to the set and
\* has raised posts_this_month_app and posts_this_month_user by k each.
SoloCycleCounts ==
    \A e \in Executors :
        (at_fetch.taken /\ at_fetch.executor = e /\ cpc[e] = "return"
             /\ result[e] = "Processed mentions")
            => LET k == Cardinality(NewAtFetch)
               IN  /\ reply_count[e] = k
                   /\ \A id \in MentionIds :
                        submitted[id] = at_fetch.submitted[id]
                                          + (IF id \in NewAtFetch THEN 1 ELSE 0)
                   /\ processed_mentions = at_fetch.processed \cup NewAtFetch
                   /\ usage.posts_this_month_app = at_fetch.posts_app + k
                   /\ usage.posts_this_month_user = at_fetch.posts_user + k

\* C12 witness: a cycle that fetched two mentions, one of them already
\* processed, is about to return
SoloCycleSkippedOne ==
    \E e \in Executors :
        /\ at_fetch.taken /\ at_fetch.executor = e /\ cpc[e] = "return"
        /\ Len(at_fetch.fetched) = 2
        /\ Cardinality(at_fetch.processed) = 1
        /\ Cardinality(processed_mentions) = 2

\* C13: an id leaves the processed set only in a clear(); clear() returns
\* the number of ids it removes and leaves the set empty, also when a cycle
\* of the polling thread inserts an id while clear() is executing.
ClearCountsWhatItRemoves ==
    [][/\ (\E id \in processed_mentions : id \notin processed_mentions')
            => clear_processed_mentions
       /\ clear_processed_mentions
            => /\ clear_count = Cardinality(processed_mentions)
               /\ processed_mentions' = {}]_vars

\* C14: a BotConfig with check_interval_seconds < 1 or tweet_max_length < 1
\* is rejected by configure(), so the active BotConfig is never invalid.
ActiveConfigValid ==
    /\ bot_config.check_interval_seconds >= 1
    /\ bot_config.tweet_max_length >= 1

\* C15: enable() called while the scheduler is running with an active worker
\* and enabled is true changes nothing; every enable() leaves enabled true
\* and a thread handle in place, and in such a state a further enable()
\* changes nothing, so enable();enable() ends where a single enable() ends.
EnableIdempotent ==
    [][/\ (enable_bot /\ mention_check_running /\ bot_config.enabled
               /\ ActiveWorkers # {})
            => UNCHANGED vars
       /\ enable_bot
            => (bot_config'.enabled /\ mention_check_task' # None)
       /\ (enable_bot /\ bot_config.enabled /\ mention_check_task # None)
            => UNCHANGED vars]_vars

\* C15 witness: the event loop is free for a request while the bot is
\* enabled and its polling thread, which has completed a cycle, is asleep
EnableWhileRunning ==
    /\ LoopFree
    /\ mention_check_running
    /\ bot_config.enabled
    /\ mention_check_task # None
    /\ wpc[mention_check_task] = "sleep"
    /\ usage.reads_this_month > 0

\* C16: when create_tweet fails for a mention, the cycle goes on with the
\* rest of the fetched mentions in their order (or returns normally after
\* the last one); the step adds nothing to the processed set, counts no
\* post and no reply, so the mention is not skipped by a later cycle on
\* account of this attempt.
FailedSubmissionSkipsNothing ==
    [][\A e \in Executors :
          (cpc[e] = "submit" /\ cpc'[e] \notin {"submit", "mark"})
            => /\ UNCHANGED <<processed_mentions, usage, submitted>>
               /\ reply_count'[e] = reply_count[e]
               /\ IF Tail(todo[e]) # <<>>
                  THEN cpc'[e] = "test" /\ todo'[e] = Tail(todo[e])
                  ELSE cpc'[e] = "return"
                         /\ result'[e] = "Processed mentions"]_vars

\* C16 witness: a cycle is about to return after every one of its
\* submissions failed; no reply was ever accepted
AllSubmissionsFailed ==
    \E e \in Executors :
        /\ cpc[e] = "return"
        /\ result[e] = "Processed mentions"
        /\ reply_count[e] = 0
        /\ \A id \in MentionIds : submitted[id] = 0
        /\ usage.posts_this_month_app = 0

\* mentions whose reply was accepted and whose cycle has not yet reached
\* lines 331-338 for it
PendingMark == {Head(todo[e]) : e \in {x \in Executors : cpc[x] = "mark"}}

\* C17 as stated: once the cycle has gone past a successful submission, the
\* mention id is in the processed set and both post counters have counted
\* it, whatever store_processed_mentions is (no clear-cache request is made).
SubmittedAreProcessed ==
    /\ \A id \in MentionIds :
          (submitted[id] > 0 /\ id \notin PendingMark)
              => id \in processed_mentions
    /\ \A e \in Executors :
          cpc[e] = "return" => usage.posts_this_month_app >= reply_count[e]

\* C17 amended: a successful submission is followed in the same cycle, for
\* the same mention, by lines 331-338: increment_post() is called and the
\* reply is counted in either case, and the id is added to the processed set
\* exactly when store_processed_mentions is true at that moment; with the
\* flag false the set is left as it is.
SubmittedAreMarkedWhenStoring ==
    [][\A e \in Executors :
          /\ (cpc[e] = "submit" /\ cpc'[e] = "mark") => todo'[e] = todo[e]
          /\ (cpc[e] = "mark" /\ cpc'[e] # "mark")
               => /\ processed_mentions' =
                        IF bot_config.store_processed_mentions
                        THEN processed_mentions \cup {Head(todo[e])}
                        ELSE processed_mentions
                  /\ usage' = increment_post(usage, now)
                  /\ reply_count'[e] = reply_count[e] + 1]_vars

\* C17 witness: a reply was accepted and counted, its cycle is past the
\* mention, and the processed set is still empty
CountedButNotStored ==
    \E id \in MentionIds :
        /\ submitted[id] > 0
        /\ PendingMark = {}
        /\ processed_mentions = {}
        /\ usage.posts_this_month_app > 0
        /\ ~bot_config.store_processed_mentions

\* C18: no dict returned by get_usage_stats shows a partly applied
\* increment_post: its posts_this_month_app equals its
\* posts_this_month_user.
SnapshotConsistent ==
    \A t \in Callers :
        u_pc[t] = "stats_return"
            => u_stats[t].posts_this_month_app = u_stats[t].posts_this_month_user

\* C19: the processed set changes only when a cycle adds the id of the
\* mention whose reply was just accepted, or when clear-cache empties it;
\* so it only grows between two clears, it never holds an id without an
\* accepted reply, and enable, disable, configure, configure-llm and failed
\* submissions or fetches leave it alone.
ProcessedSetChangesByMarkOrClear ==
    [][/\ processed_mentions' # processed_mentions
            => \/ \E e \in Executors :
                      /\ Mark(e)
                      /\ processed_mentions' =
                             processed_mentions \cup {Head(todo[e])}
                      /\ submitted[Head(todo[e])] > 0
               \/ clear_processed_mentions /\ processed_mentions' = {}
       /\ \A id \in processed_mentions' : submitted'[id] > 0]_vars

\* C19 witness: clear-cache has counted the set and a cycle has added an id
\* since; the set is about to be emptied
InsertionThenClear ==
    /\ clear_count # NotClearing
    /\ clear_count < Cardinality(processed_mentions)
    /\ \A id \in processed_mentions : submitted[id] > 0

\* C20: as long as no two cycles have overlapped in time,
\* store_processed_mentions has stayed true and the cache was not cleared,
\* no mention id has more than one accepted reply, however many cycles have
\* fetched it.
OneSubmissionAcrossCycles ==
    (dedup_since_start /\ ~overlapped)
        => \A id \in MentionIds : submitted[id] <= 1

\* C20 witness: the second of two cycles that did not overlap fetched
\* mentions, all of them answered by the first, and is about to return
\* without a reply
LaterCycleSkippedAll ==
    \E e \in Executors :
        /\ dedup_since_start /\ ~overlapped
        /\ usage.reads_this_month = 2
        /\ cpc[e] = "return"
        /\ result[e] = "Processed mentions"
        /\ reply_count[e] = 0
        /\ processed_mentions = MentionIds
        /\ \A id \in MentionIds : submitted[id] = 1

====
